---- MODULE Spec2Model ----
(***************************************************************************)
(* A model of pyfes/expression.py: the Expression variants ValueReference, *)
(* Literal and Function of the OGC Filter Encoding Standard, their XML     *)
(* (de)serialization and the ExpressionParser factory.                     *)
(*                                                                         *)
(* Python strings are sequences of one-character strings, so that parsing  *)
(* and validation are computed character by character.  Python values are  *)
(* records [tag, chars, dt]: tag "str" (chars is the text), tag "None",    *)
(* or tag "datetime" (dt is <<year, month, day, hour, minute, second>>).   *)
(***************************************************************************)
EXTENDS Integers, Sequences, FiniteSets, TLC

VARIABLES
    vr,                  \* the live ValueReference instances: Seq of [_value]
    lit,                 \* the live Literal instances: Seq of [_value, type_]
    fn,                  \* the live Function instances: Seq of [_name]
    Function_arguments,  \* the class attribute Function.arguments (one list)
    last                 \* the outcome of the most recent call

vars == <<vr, lit, fn, Function_arguments, last>>

\* Bounds of the model: how many instances of each class are kept alive, and
\* how long the class-level argument list may grow.
MaxVR == 2
MaxLit == 1
MaxFn == 2
MaxArgList == 2

----------------------------------------------------------------------------
(* Python values *)

NoDate == <<>>
Str(cs) == [tag |-> "str", chars |-> cs, dt |-> NoDate]
None == [tag |-> "None", chars |-> <<>>, dt |-> NoDate]
DateTime(Y, m, d, H, M, S) ==
    [tag |-> "datetime", chars |-> <<>>, dt |-> <<Y, m, d, H, M, S>>]

IsStr(v) == v.tag = "str"

\* The strings the model draws its inputs from.
S_prop1 == <<"p", "r", "o", "p", "1">>
S_myFunc == <<"m", "y", "F", "u", "n", "c">>
S_1x == <<"1", "x">>
S_empty == <<>>
S_5 == <<"5">>
S_date == <<"2", "0", "2", "0", "-", "0", "1", "-", "1", "5", "T",
            "0", "0", ":", "0", "0", ":", "0", "0">>
S_date_short == <<"2", "0", "2", "1", "-", "2", "-", "2", "8", "T",
                  "7", ":", "0", "8", ":", "9">>
S_date_feb30 == <<"2", "0", "2", "0", "-", "0", "2", "-", "3", "0", "T",
                  "0", "0", ":", "0", "0", ":", "0", "0">>
S_xs_date == <<"x", "s", ":", "d", "a", "t", "e">>
S_xs_string == <<"x", "s", ":", "s", "t", "r", "i", "n", "g">>

----------------------------------------------------------------------------
(* namespaces: the prefix -> URI table of pyfes.namespaces *)

FES_URI == "http://www.opengis.net/fes/2.0"
GML_URI == "http://www.opengis.net/gml/3.2"

namespaces == [fes |-> FES_URI, gml |-> GML_URI]

----------------------------------------------------------------------------
(* validators: a validator either returns or raises ValidationError.  The   *)
(* operators give the name of the exception raised, "" when none is.       *)

NoExc == ""

Letters == {"a", "b", "c", "d", "e", "f", "g", "h", "i", "j", "k", "l", "m",
            "n", "o", "p", "q", "r", "s", "t", "u", "v", "w", "x", "y", "z",
            "A", "B", "C", "D", "E", "F", "G", "H", "I", "J", "K", "L", "M",
            "N", "O", "P", "Q", "R", "S", "T", "U", "V", "W", "X", "Y", "Z",
            "_"}
DigitChars == <<"0", "1", "2", "3", "4", "5", "6", "7", "8", "9">>
IsDigit(c) == \E i \in 1..10 : DigitChars[i] = c
DigitVal(c) == (CHOOSE i \in 1..10 : DigitChars[i] = c) - 1

\* A name is a letter or underscore followed by letters, digits, "_", "-", ".".
IsName(cs) ==
    /\ Len(cs) > 0
    /\ cs[1] \in Letters
    /\ \A i \in 2..Len(cs) : cs[i] \in Letters \/ IsDigit(cs[i]) \/ cs[i] \in {"-", "."}

gml_validator(v) ==
    IF IsStr(v) /\ IsName(v.chars) THEN NoExc ELSE "ValidationError"

gml_property_name_validator(v) == gml_validator(v)

----------------------------------------------------------------------------
(* datetime.datetime.strptime(s, "%Y-%m-%dT%H:%M:%S") *)

\* The number of digits at s[p], s[p+1], ...
RECURSIVE DigitRun(_, _)
DigitRun(s, p) ==
    IF p > Len(s) \/ ~IsDigit(s[p]) THEN 0 ELSE 1 + DigitRun(s, p + 1)

\* The number written by the n digits at s[p..].
RECURSIVE ToInt(_, _, _)
ToInt(s, p, n) ==
    IF n = 0 THEN 0 ELSE ToInt(s, p, n - 1) * 10 + DigitVal(s[p + n - 1])

\* The six directives of the format: the digits each accepts, the range of
\* its value, and the literal that follows it ("" at the end of the format).
FmtMinDigits == <<4, 1, 1, 1, 1, 1>>
FmtMaxDigits == <<4, 2, 2, 2, 2, 2>>
FmtLow == <<0, 1, 1, 0, 0, 0>>
FmtHigh == <<9999, 12, 31, 23, 59, 61>>
FmtLiteral == <<"-", "-", "T", ":", ":", "">>

\* The fields matched from position p on for directives k..6, appended to
\* acc; <<>> when the string does not match the format.
RECURSIVE MatchFields(_, _, _, _)
MatchFields(s, p, k, acc) ==
    LET n == DigitRun(s, p)
        val == ToInt(s, p, n)
        q == p + n
    IN  IF n < FmtMinDigits[k] \/ n > FmtMaxDigits[k] THEN <<>>
        ELSE IF val < FmtLow[k] \/ val > FmtHigh[k] THEN <<>>
        ELSE IF k = 6
             THEN IF q = Len(s) + 1 THEN Append(acc, val) ELSE <<>>
        ELSE IF q > Len(s) \/ s[q] # FmtLiteral[k] THEN <<>>
        ELSE MatchFields(s, q + 1, k + 1, Append(acc, val))

IsLeap(Y) == (Y % 4 = 0 /\ Y % 100 # 0) \/ Y % 400 = 0
DaysInMonth(Y, m) ==
    IF m = 2 THEN (IF IsLeap(Y) THEN 29 ELSE 28)
    ELSE IF m \in {4, 6, 9, 11} THEN 30 ELSE 31

\* [exc, value]: the datetime, or the exception strptime raises.
strptime(v) ==
    IF ~IsStr(v) THEN [exc |-> "TypeError", value |-> None]
    ELSE LET f == MatchFields(v.chars, 1, 1, <<>>)
         IN  IF f = <<>> THEN [exc |-> "ValueError", value |-> None]
             ELSE IF f[1] < 1 \/ f[3] > DaysInMonth(f[1], f[2]) \/ f[6] > 59
                  THEN [exc |-> "ValueError", value |-> None]
             ELSE [exc |-> NoExc,
                   value |-> DateTime(f[1], f[2], f[3], f[4], f[5], f[6])]

----------------------------------------------------------------------------
(* XML element nodes, as lxml hands them over: the namespace and local name *)
(* of the tag, the text content and the "type" attribute (None when absent) *)

Node(ns, localname, text, type) ==
    [ns |-> ns, localname |-> localname, text |-> text, type |-> type]
NoNode == Node("", "", None, None)

\* etree.Element("{uri}name", nsmap=namespaces)
etree_Element(ns, localname) == Node(ns, localname, None, None)

\* element.text = v: lxml takes a string or None and raises TypeError otherwise.
etree_set_text(element, v) ==
    IF v.tag \in {"str", "None"}
    THEN [exc |-> NoExc, node |-> [element EXCEPT !.text = v]]
    ELSE [exc |-> "TypeError", node |-> element]

\* etree.tostring(node, pretty_print=True): the pieces of the rendered text.
etree_tostring(node) ==
    LET open == <<"<fes:", node.localname,
                  " xmlns:fes=", namespaces.fes, " xmlns:gml=", namespaces.gml>>
        attr == IF node.type = None THEN <<>> ELSE <<" type=">> \o node.type.chars
    IN  IF node.text = None \/ node.text.chars = <<>>
        THEN open \o attr \o <<"/>", "\n">>
        ELSE open \o attr \o <<">">> \o node.text.chars
                  \o <<"</fes:", node.localname, ">", "\n">>

\* etree.QName(expression): the (namespace, localname) of the node's tag.
etree_QName(expression) ==
    [namespace |-> expression.ns, localname |-> expression.localname]

----------------------------------------------------------------------------
(* The classes.  An operation's result is a record holding exc, the name of *)
(* the exception it raises (NoExc when it returns), and what it returns or  *)
(* leaves behind.                                                           *)

\* The attributes each class defines itself, and the classes it inherits from.
OwnAttrs ==
    [Expression |-> {"XML_ENTITY_NAME", "serialize"},
     ValueReference |-> {"XML_ENTITY_NAME", "_value", "validators", "value",
                         "__init__", "_serialize", "deserialize"},
     Literal |-> {"XML_ENTITY_NAME", "_value", "type_", "value", "__init__",
                  "_serialize", "deserialize"},
     Function |-> {"XML_ENTITY_NAME", "_name", "arguments", "name", "__init__"}]
HasAttr(cls, attr) == attr \in OwnAttrs[cls] \cup OwnAttrs["Expression"]

XML_ENTITY_NAME ==
    [Expression |-> "", ValueReference |-> "ValueReference",
     Literal |-> "Literal", Function |-> "Function"]

\* References to objects: instance id of class cls; the plain string
\* "not-an-expression" is an object of class "str".
Ref(cls, id) == [cls |-> cls, id |-> id]
NoRef == Ref("None", 0)
IsExpression(ref) == ref.cls \in {"ValueReference", "Literal", "Function"}

(* ValueReference *)

\* for validator in self.validators: validator(new_value)
ValueReference_validators(new_value) == gml_property_name_validator(new_value)

\* The setter with the assignment made before the validators run.
ValueReference_value_setter_AssignFirst(self, new_value) ==
    [exc |-> ValueReference_validators(new_value),
     obj |-> [self EXCEPT !._value = new_value]]

ValueReference_value_setter(self, new_value) ==
    LET e == ValueReference_validators(new_value)
    IN  IF e # NoExc THEN [exc |-> e, obj |-> self]
        ELSE [exc |-> NoExc, obj |-> [self EXCEPT !._value = new_value]]

\* The object __init__ receives: only the class attribute _value = "".
ValueReference_new == [_value |-> Str(S_empty)]

ValueReference_init(value) == ValueReference_value_setter(ValueReference_new, value)

\* _serialize with the text of the element left unset.
ValueReference__serialize_NoText(self) ==
    [exc |-> NoExc,
     node |-> etree_Element(namespaces.fes, XML_ENTITY_NAME["ValueReference"])]

ValueReference__serialize(self) ==
    etree_set_text(etree_Element(namespaces.fes, XML_ENTITY_NAME["ValueReference"]),
                   self._value)

\* deserialize with the local name left unchecked.
ValueReference_deserialize_AnyName(expression) ==
    LET qname == etree_QName(expression)
    IN  IF qname.namespace = namespaces.fes
        THEN LET r == ValueReference_init(expression.text)
             IN  [exc |-> r.exc, made |-> r.exc = NoExc, obj |-> r.obj, log |-> <<>>]
        ELSE [exc |-> NoExc, made |-> FALSE, obj |-> ValueReference_new,
              log |-> <<"error">>]

ValueReference_deserialize(expression) ==
    LET qname == etree_QName(expression)
    IN  IF qname.namespace = namespaces.fes
           /\ qname.localname = XML_ENTITY_NAME["ValueReference"]
        THEN LET r == ValueReference_init(expression.text)
             IN  [exc |-> r.exc, made |-> r.exc = NoExc, obj |-> r.obj, log |-> <<>>]
        ELSE [exc |-> NoExc, made |-> FALSE, obj |-> ValueReference_new,
              log |-> <<"error">>]

(* Literal *)

\* The getter with the type_ left unread.
Literal_value_getter_Raw(self) == [exc |-> NoExc, value |-> self._value]

Literal_value_getter(self) ==
    IF self.type_ = Str(S_xs_date)
    THEN strptime(self._value)
    ELSE [exc |-> NoExc, value |-> self._value]

Literal_value_setter(self, new_value) == [self EXCEPT !._value = new_value]

\* The object __init__ receives: the class attributes _value = type_ = None.
Literal_new == [_value |-> None, type_ |-> None]

Literal_init(value, type_) ==
    [Literal_value_setter(Literal_new, value) EXCEPT !.type_ = type_]

Literal__serialize(self) ==
    LET element == etree_Element(namespaces.fes, XML_ENTITY_NAME["Literal"])
        typed == IF self.type_ # None THEN [element EXCEPT !.type = self.type_]
                 ELSE element
        v == Literal_value_getter(self)
    IN  IF v.exc # NoExc THEN [exc |-> v.exc, node |-> typed]
        ELSE etree_set_text(typed, v.value)

Literal_deserialize(expression) ==
    LET qname == etree_QName(expression)
    IN  IF qname.namespace = namespaces.fes
           /\ qname.localname = XML_ENTITY_NAME["Literal"]
        THEN [exc |-> NoExc, made |-> TRUE,
              obj |-> Literal_init(expression.text, expression.type), log |-> <<>>]
        ELSE [exc |-> NoExc, made |-> FALSE, obj |-> Literal_new,
              log |-> <<"debug">>]

(* Function *)

Function_name_setter(self, new_name) ==
    LET e == gml_validator(new_name)
    IN  IF e # NoExc THEN [exc |-> e, obj |-> self]
        ELSE [exc |-> NoExc, obj |-> [self EXCEPT !._name = new_name]]

\* The object __init__ receives: only the class attribute _name = "".
Function_new == [_name |-> Str(S_empty)]

\* for arg in arguments[k..]: the list self.arguments resolves to is the class
\* attribute, appended to in place; logger.warning() is called without the
\* message it requires and raises TypeError.
RECURSIVE Function_init_loop(_, _, _)
Function_init_loop(arguments, k, list) ==
    IF k > Len(arguments) THEN [exc |-> NoExc, list |-> list]
    ELSE IF IsExpression(arguments[k])
         THEN Function_init_loop(arguments, k + 1, Append(list, arguments[k]))
         ELSE [exc |-> "TypeError", list |-> list]

\* The constructor with the arguments handled before the name is assigned.
Function_init_ArgumentsFirst(name, arguments, list) ==
    LET l == Function_init_loop(arguments, 1, list)
        n == Function_name_setter(Function_new, name)
    IN  IF l.exc # NoExc THEN [exc |-> l.exc, obj |-> n.obj, list |-> l.list]
        ELSE [exc |-> n.exc, obj |-> n.obj, list |-> l.list]

\* Function(name, *arguments), with list the present Function.arguments.
Function_init(name, arguments, list) ==
    LET n == Function_name_setter(Function_new, name)
    IN  IF n.exc # NoExc THEN [exc |-> n.exc, obj |-> n.obj, list |-> list]
        ELSE LET l == Function_init_loop(arguments, 1, list)
             IN  [exc |-> l.exc, obj |-> n.obj, list |-> l.list]

(* Expression *)

\* self._serialize() on an instance of cls holding obj.
Expression__serialize(cls, obj) ==
    IF ~HasAttr(cls, "_serialize") THEN [exc |-> "AttributeError", node |-> NoNode]
    ELSE IF cls = "ValueReference" THEN ValueReference__serialize(obj)
    ELSE Literal__serialize(obj)

\* serialize(as_string): the node, or its rendering in xml when as_string.
Expression_serialize(cls, obj, as_string) ==
    LET result == Expression__serialize(cls, obj)
    IN  IF result.exc # NoExc
        THEN [exc |-> result.exc, node |-> NoNode, xml |-> <<>>]
        ELSE IF as_string
             THEN [exc |-> NoExc, node |-> NoNode, xml |-> etree_tostring(result.node)]
             ELSE [exc |-> NoExc, node |-> result.node, xml |-> <<>>]

(* ExpressionParser *)

expression_classes == <<"ValueReference", "Literal", "Function">>

\* cls.deserialize(expression): [exc, made, cls, vobj, lobj, log].
Class_deserialize(cls, expression) ==
    IF ~HasAttr(cls, "deserialize")
    THEN [exc |-> "AttributeError", made |-> FALSE, cls |-> cls,
          vobj |-> ValueReference_new, lobj |-> Literal_new, log |-> <<>>]
    ELSE IF cls = "ValueReference"
    THEN LET r == ValueReference_deserialize(expression)
         IN  [exc |-> r.exc, made |-> r.made, cls |-> cls,
              vobj |-> r.obj, lobj |-> Literal_new, log |-> r.log]
    ELSE LET r == Literal_deserialize(expression)
         IN  [exc |-> r.exc, made |-> r.made, cls |-> cls,
              vobj |-> ValueReference_new, lobj |-> r.obj, log |-> r.log]

\* while instance is None and current < len(expression_classes): ...
\* tried lists the classes whose deserialize was looked up, log the levels logged.
RECURSIVE parse_loop(_, _, _, _)
parse_loop(expression, current, tried, log) ==
    IF current >= Len(expression_classes)
    THEN [exc |-> NoExc, made |-> FALSE, cls |-> "None",
          vobj |-> ValueReference_new, lobj |-> Literal_new,
          tried |-> tried, log |-> log]
    ELSE LET cls == expression_classes[current + 1]
             r == Class_deserialize(cls, expression)
             t == Append(tried, cls)
             l == log \o r.log
         IN  IF r.exc # NoExc \/ r.made
             THEN [exc |-> r.exc, made |-> r.made, cls |-> cls, vobj |-> r.vobj,
                   lobj |-> r.lobj, tried |-> t, log |-> l]
             ELSE parse_loop(expression, current + 1, t, l)

ExpressionParser_parse(expression) == parse_loop(expression, 0, <<>>, <<>>)

----------------------------------------------------------------------------
(* The state machine.  last records the most recent call: its name (op), the *)
(* class and index of the instance it is called on, its arguments, the       *)
(* exception it raised and what it returned.                                 *)

NoCall ==
    [op |-> "", cls |-> "", self |-> 0, arg |-> None, type_ |-> None,
     node |-> NoNode, args |-> <<>>, as_string |-> FALSE,
     exc |-> NoExc, ret |-> NoRef, val |-> None, out |-> NoNode, xml |-> <<>>,
     tried |-> <<>>, log |-> <<>>]

\* The inputs calls are made with.
NameInputs == {Str(S_prop1), Str(S_myFunc), Str(S_1x), None}
FunctionNameInputs == {Str(S_myFunc), Str(S_prop1), Str(S_1x)}
LiteralInputs == {Str(S_date), Str(S_date_short), Str(S_date_feb30), Str(S_5), None}
TypeInputs == {None, Str(S_xs_date), Str(S_xs_string)}
NodeInputs ==
    {Node(ns, ln, text, None) :
        ns \in {FES_URI, GML_URI},
        ln \in {"ValueReference", "Literal", "Function", "Bogus"},
        text \in {Str(S_prop1), Str(S_1x), None}}
    \cup {Node(FES_URI, "Literal", Str(S_date), Str(S_xs_date))}
LiteralNodeInputs ==
    {Node(ns, ln, text, type) :
        ns \in {FES_URI, GML_URI},
        ln \in {"Literal", "ValueReference"},
        text \in LiteralInputs,
        type \in TypeInputs}

Init ==
    /\ vr = <<>>
    /\ lit = <<>>
    /\ fn = <<>>
    /\ Function_arguments = <<>>
    /\ last = NoCall

(* ValueReference *)

\* ValueReference(value)
VR_New(value) ==
    LET r == ValueReference_init(value)
    IN  /\ r.exc = NoExc => Len(vr) < MaxVR
        /\ vr' = IF r.exc = NoExc THEN Append(vr, r.obj) ELSE vr
        /\ last' = [NoCall EXCEPT !.op = "__init__", !.cls = "ValueReference",
                       !.arg = value, !.exc = r.exc,
                       !.ret = IF r.exc = NoExc
                               THEN Ref("ValueReference", Len(vr) + 1) ELSE NoRef]
        /\ UNCHANGED <<lit, fn, Function_arguments>>

\* vr[i].value = value
VR_SetValue(i, value) ==
    LET r == ValueReference_value_setter(vr[i], value)
    IN  /\ vr' = [vr EXCEPT ![i] = r.obj]
        /\ last' = [NoCall EXCEPT !.op = "value.setter", !.cls = "ValueReference",
                       !.self = i, !.arg = value, !.exc = r.exc]
        /\ UNCHANGED <<lit, fn, Function_arguments>>

\* vr[i].serialize(as_string)
VR_Serialize(i, as_string) ==
    LET r == Expression_serialize("ValueReference", vr[i], as_string)
    IN  /\ last' = [NoCall EXCEPT !.op = "serialize", !.cls = "ValueReference",
                       !.self = i, !.as_string = as_string, !.exc = r.exc,
                       !.out = r.node, !.xml = r.xml]
        /\ UNCHANGED <<vr, lit, fn, Function_arguments>>

\* ValueReference.deserialize(node)
VR_Deserialize(node) ==
    LET r == ValueReference_deserialize(node)
    IN  /\ r.made => Len(vr) < MaxVR
        /\ vr' = IF r.made THEN Append(vr, r.obj) ELSE vr
        /\ last' = [NoCall EXCEPT !.op = "deserialize", !.cls = "ValueReference",
                       !.node = node, !.exc = r.exc, !.log = r.log,
                       !.ret = IF r.made
                               THEN Ref("ValueReference", Len(vr) + 1) ELSE NoRef]
        /\ UNCHANGED <<lit, fn, Function_arguments>>

(* ExpressionParser *)

\* The nodes handed to the parser: the inputs, and the node a serialize call
\* has just returned.
ParseInputs ==
    NodeInputs \cup
    (IF last.op = "serialize" /\ last.exc = NoExc /\ ~last.as_string
     THEN {last.out} ELSE {})

\* ExpressionParser.parse(node)
Parse(node) ==
    LET r == ExpressionParser_parse(node)
        isVR == r.made /\ r.cls = "ValueReference"
        isLit == r.made /\ r.cls = "Literal"
    IN  /\ isVR => Len(vr) < MaxVR
        /\ isLit => Len(lit) < MaxLit
        /\ vr' = IF isVR THEN Append(vr, r.vobj) ELSE vr
        /\ lit' = IF isLit THEN Append(lit, r.lobj) ELSE lit
        /\ last' = [NoCall EXCEPT !.op = "parse", !.cls = "ExpressionParser",
                       !.node = node, !.exc = r.exc, !.tried = r.tried,
                       !.log = r.log,
                       !.ret = IF isVR THEN Ref("ValueReference", Len(vr) + 1)
                               ELSE IF isLit THEN Ref("Literal", Len(lit) + 1)
                               ELSE NoRef]
        /\ UNCHANGED <<fn, Function_arguments>>

(* Literal *)

\* Literal(value, type_)
Lit_New(value, type_) ==
    /\ Len(lit) < MaxLit
    /\ lit' = Append(lit, Literal_init(value, type_))
    /\ last' = [NoCall EXCEPT !.op = "__init__", !.cls = "Literal",
                   !.arg = value, !.type_ = type_,
                   !.ret = Ref("Literal", Len(lit) + 1)]
    /\ UNCHANGED <<vr, fn, Function_arguments>>

\* lit[i].value = value
Lit_SetValue(i, value) ==
    /\ lit' = [lit EXCEPT ![i] = Literal_value_setter(lit[i], value)]
    /\ last' = [NoCall EXCEPT !.op = "value.setter", !.cls = "Literal",
                   !.self = i, !.arg = value]
    /\ UNCHANGED <<vr, fn, Function_arguments>>

\* lit[i].type_ = type_ (a plain attribute)
Lit_SetType(i, type_) ==
    /\ lit' = [lit EXCEPT ![i].type_ = type_]
    /\ last' = [NoCall EXCEPT !.op = "type_.set", !.cls = "Literal",
                   !.self = i, !.type_ = type_]
    /\ UNCHANGED <<vr, fn, Function_arguments>>

\* lit[i].value
Lit_GetValue(i) ==
    LET r == Literal_value_getter(lit[i])
    IN  /\ last' = [NoCall EXCEPT !.op = "value.getter", !.cls = "Literal",
                       !.self = i, !.exc = r.exc, !.val = r.value]
        /\ UNCHANGED <<vr, lit, fn, Function_arguments>>

\* lit[i].serialize(as_string)
Lit_Serialize(i, as_string) ==
    LET r == Expression_serialize("Literal", lit[i], as_string)
    IN  /\ last' = [NoCall EXCEPT !.op = "serialize", !.cls = "Literal",
                       !.self = i, !.as_string = as_string, !.exc = r.exc,
                       !.out = r.node, !.xml = r.xml]
        /\ UNCHANGED <<vr, lit, fn, Function_arguments>>

\* Literal.deserialize(node)
Lit_Deserialize(node) ==
    LET r == Literal_deserialize(node)
    IN  /\ r.made => Len(lit) < MaxLit
        /\ lit' = IF r.made THEN Append(lit, r.obj) ELSE lit
        /\ last' = [NoCall EXCEPT !.op = "deserialize", !.cls = "Literal",
                       !.node = node, !.exc = r.exc, !.log = r.log,
                       !.ret = IF r.made THEN Ref("Literal", Len(lit) + 1)
                               ELSE NoRef]
        /\ UNCHANGED <<vr, fn, Function_arguments>>

(* Function *)

\* The argument lists a Function call is given: none, the two expressions,
\* the plain string "not-an-expression" alone and after an expression, and a
\* live Function alone and before an expression.
NotAnExpression == Ref("str", 0)
ArgLists ==
    {<<>>, <<NotAnExpression>>,
     <<Ref("ValueReference", 1), Ref("Literal", 1)>>,
     <<Ref("ValueReference", 1), NotAnExpression>>}
    \cup {<<Ref("Function", i)>> : i \in 1..Len(fn)}
    \cup {<<Ref("Function", i), Ref("Literal", 1)>> : i \in 1..Len(fn)}

\* f.arguments: no instance has an attribute of its own, the class's is read.
Function_arguments_getter(self, list) == list

\* Function(name, *arguments)
Fn_New(name, arguments) ==
    LET r == Function_init(name, arguments, Function_arguments)
    IN  /\ Len(r.list) <= MaxArgList
        /\ r.exc = NoExc => Len(fn) < MaxFn
        /\ fn' = IF r.exc = NoExc THEN Append(fn, r.obj) ELSE fn
        /\ Function_arguments' = r.list
        /\ last' = [NoCall EXCEPT !.op = "__init__", !.cls = "Function",
                       !.arg = name, !.args = arguments, !.exc = r.exc,
                       !.ret = IF r.exc = NoExc
                               THEN Ref("Function", Len(fn) + 1) ELSE NoRef]
        /\ UNCHANGED <<vr, lit>>

\* fn[i].name = name
Fn_SetName(i, name) ==
    LET r == Function_name_setter(fn[i], name)
    IN  /\ fn' = [fn EXCEPT ![i] = r.obj]
        /\ last' = [NoCall EXCEPT !.op = "name.setter", !.cls = "Function",
                       !.self = i, !.arg = name, !.exc = r.exc]
        /\ UNCHANGED <<vr, lit, Function_arguments>>

\* fn[i].serialize(as_string)
Fn_Serialize(i, as_string) ==
    LET r == Expression_serialize("Function", fn[i], as_string)
    IN  /\ last' = [NoCall EXCEPT !.op = "serialize", !.cls = "Function",
                       !.self = i, !.as_string = as_string, !.exc = r.exc,
                       !.out = r.node, !.xml = r.xml]
        /\ UNCHANGED <<vr, lit, fn, Function_arguments>>

(* The specifications *)

\* ValueReference and the parser.
Next ==
    \/ \E value \in NameInputs : VR_New(value)
    \/ \E i \in 1..Len(vr), value \in NameInputs : VR_SetValue(i, value)
    \/ \E i \in 1..Len(vr), as_string \in BOOLEAN : VR_Serialize(i, as_string)
    \/ \E node \in NodeInputs : VR_Deserialize(node)
    \/ \E node \in ParseInputs : Parse(node)

Spec == Init /\ [][Next]_vars

\* Literal.
NextLiteral ==
    \/ \E value \in LiteralInputs, type_ \in TypeInputs : Lit_New(value, type_)
    \/ \E i \in 1..Len(lit), value \in LiteralInputs : Lit_SetValue(i, value)
    \/ \E i \in 1..Len(lit), type_ \in TypeInputs : Lit_SetType(i, type_)
    \/ \E i \in 1..Len(lit) : Lit_GetValue(i)
    \/ \E i \in 1..Len(lit), as_string \in BOOLEAN : Lit_Serialize(i, as_string)
    \/ \E node \in LiteralNodeInputs : Lit_Deserialize(node)

SpecLiteral == Init /\ [][NextLiteral]_vars

\* Function, over the expressions ValueReference("prop1") and Literal("5").
InitFunction ==
    /\ vr = <<ValueReference_init(Str(S_prop1)).obj>>
    /\ lit = <<Literal_init(Str(S_5), None)>>
    /\ fn = <<>>
    /\ Function_arguments = <<>>
    /\ last = NoCall

NextFunction ==
    \/ \E name \in FunctionNameInputs, arguments \in ArgLists :
            Fn_New(name, arguments)
    \/ \E i \in 1..Len(fn), name \in FunctionNameInputs : Fn_SetName(i, name)
    \/ \E i \in 1..Len(fn), as_string \in BOOLEAN : Fn_Serialize(i, as_string)

SpecFunction == InitFunction /\ [][NextFunction]_vars

----------------------------------------------------------------------------
(* The properties *)

IsClaimed(node) ==
    /\ node.ns = FES_URI
    /\ node.localname \in {"ValueReference", "Literal", "Function"}

\* C1: ExpressionParser.parse, given a node no variant claims, returns None
\* without raising, after trying ValueReference, Literal and Function in
\* that order.
C1_UnclaimedNodeYieldsNone ==
    (last.op = "parse" /\ ~IsClaimed(last.node))
        => /\ last.exc = NoExc
           /\ last.ret = NoRef
           /\ last.tried = <<"ValueReference", "Literal", "Function">>

\* C2: whenever ExpressionParser.parse returns an instance, the node is in
\* the fes namespace and the instance is of the variant whose XML_ENTITY_NAME
\* is the node's local name.
C2_DispatchExclusive ==
    (last.op = "parse" /\ last.ret # NoRef)
        => /\ last.exc = NoExc
           /\ last.node.ns = FES_URI
           /\ last.ret.cls \in {"ValueReference", "Literal", "Function"}
           /\ XML_ENTITY_NAME[last.ret.cls] = last.node.localname

C2_Witness ==
    /\ last.op = "parse"
    /\ last.node.localname = "Literal"
    /\ last.ret.cls = "Literal"

\* C3: for a ValueReference holding a valid property name s, serialize
\* returns a node which ExpressionParser.parse turns into a ValueReference
\* whose value is s; and parsing a fes:ValueReference node with a valid text
\* returns a ValueReference holding that text.
C3_ValueReferenceRoundTrip ==
    /\ (/\ last.op = "serialize" /\ last.cls = "ValueReference"
        /\ ~last.as_string
        /\ gml_property_name_validator(vr[last.self]._value) = NoExc)
          => /\ last.exc = NoExc
             /\ LET r == ExpressionParser_parse(last.out)
                IN  /\ r.exc = NoExc
                    /\ r.made
                    /\ r.cls = "ValueReference"
                    /\ r.vobj._value = vr[last.self]._value
    /\ (/\ last.op = "parse"
        /\ last.node.ns = FES_URI /\ last.node.localname = "ValueReference"
        /\ gml_property_name_validator(last.node.text) = NoExc)
          => /\ last.exc = NoExc
             /\ last.ret.cls = "ValueReference"
             /\ vr[last.ret.id]._value = last.node.text

\* The parser has returned a second ValueReference, equal to the first, from
\* the node the first was serialized to.
C3_Witness ==
    /\ last.op = "parse"
    /\ last.ret = Ref("ValueReference", 2)
    /\ last.node = Node(FES_URI, "ValueReference", vr[1]._value, None)
    /\ vr[2]._value = vr[1]._value
    /\ vr[1]._value = Str(S_prop1)

\* Every live ValueReference holds a valid property name.
C4_Valid ==
    \A i \in 1..Len(vr) : gml_property_name_validator(vr[i]._value) = NoExc

\* A step that assigns or constructs with an invalid value raises and changes
\* no instance.
C4_InvalidRejected ==
    /\ (/\ last'.cls = "ValueReference"
        /\ last'.op \in {"value.setter", "__init__"}
        /\ gml_property_name_validator(last'.arg) # NoExc)
          => (last'.exc = "ValidationError" /\ last'.ret = NoRef /\ vr' = vr)
    /\ (/\ last'.op \in {"deserialize", "parse"}
        /\ last'.node.ns = FES_URI /\ last'.node.localname = "ValueReference"
        /\ gml_property_name_validator(last'.node.text) # NoExc)
          => (last'.exc = "ValidationError" /\ last'.ret = NoRef /\ vr' = vr)

\* C4: every live ValueReference holds a value that passes the property-name
\* validator; an assignment of an invalid value raises ValidationError and
\* leaves the stored values as they were; a construction with an invalid
\* value, directly or from a matching node, raises ValidationError and makes
\* no instance.
C4_ValueReferenceInvariant == []C4_Valid /\ [][C4_InvalidRejected]_vars

C4_Witness ==
    /\ last.op = "value.setter" /\ last.cls = "ValueReference"
    /\ last.arg = Str(S_1x)
    /\ last.exc = "ValidationError"
    /\ vr[last.self]._value = Str(S_prop1)

\* C5: a newly constructed Function's argument sequence is exactly the
\* Expression arguments that construction was given, in order.
C5_OwnArgumentSequence ==
    (last.op = "__init__" /\ last.cls = "Function" /\ last.exc = NoExc)
        => Function_arguments_getter(fn[last.ret.id], Function_arguments)
               = SelectSeq(last.args, IsExpression)

\* C6: constructing a Function with a valid name and an argument that is not
\* an Expression completes and returns an instance.
C6_NonExpressionDropped ==
    (/\ last.op = "__init__" /\ last.cls = "Function"
     /\ gml_validator(last.arg) = NoExc
     /\ \E k \in 1..Len(last.args) : ~IsExpression(last.args[k]))
        => (last.exc = NoExc /\ last.ret.cls = "Function")

\* The text YYYY-MM-DDTHH:MM:SS, read by position.
IsIsoText(cs) ==
    /\ Len(cs) = 19
    /\ \A i \in {1, 2, 3, 4, 6, 7, 9, 10, 12, 13, 15, 16, 18, 19} : IsDigit(cs[i])
    /\ cs[5] = "-" /\ cs[8] = "-" /\ cs[11] = "T" /\ cs[14] = ":" /\ cs[17] = ":"
TwoDigits(cs, i) == DigitVal(cs[i]) * 10 + DigitVal(cs[i + 1])
IsoYear(cs) == TwoDigits(cs, 1) * 100 + TwoDigits(cs, 3)
IsCalendarText(cs) ==
    /\ IsIsoText(cs)
    /\ IsoYear(cs) >= 1
    /\ TwoDigits(cs, 6) \in 1..12
    /\ TwoDigits(cs, 9) \in 1..DaysInMonth(IsoYear(cs), TwoDigits(cs, 6))
    /\ TwoDigits(cs, 12) <= 23 /\ TwoDigits(cs, 15) <= 59 /\ TwoDigits(cs, 18) <= 59

\* C7: reading Literal.value follows the type_ held at the read: for
\* "xs:date" it returns the date/time the stored YYYY-MM-DDTHH:MM:SS text
\* denotes, and never the raw text; for any other type_ it returns the stored
\* value.  The constructor, the setter and deserialize store what they are
\* given, never a parsed date/time.
C7_LiteralValueRead ==
    /\ last.op = "value.getter" =>
          LET l == lit[last.self]
          IN  IF l.type_ = Str(S_xs_date)
              THEN /\ last.exc = NoExc => last.val.tag = "datetime"
                   /\ (IsStr(l._value) /\ IsCalendarText(l._value.chars))
                        => /\ last.exc = NoExc
                           /\ last.val =
                                LET cs == l._value.chars
                                IN  DateTime(IsoYear(cs), TwoDigits(cs, 6),
                                             TwoDigits(cs, 9), TwoDigits(cs, 12),
                                             TwoDigits(cs, 15), TwoDigits(cs, 18))
                   /\ l._value = Str(S_date)
                        => last.val = DateTime(2020, 1, 15, 0, 0, 0)
              ELSE last.exc = NoExc /\ last.val = l._value
    /\ (last.cls = "Literal" /\ last.op = "__init__")
          => lit[last.ret.id] = [_value |-> last.arg, type_ |-> last.type_]
    /\ (last.cls = "Literal" /\ last.op = "value.setter")
          => lit[last.self]._value = last.arg
    /\ (last.cls = "Literal" /\ last.op = "deserialize" /\ last.ret # NoRef)
          => lit[last.ret.id] = [_value |-> last.node.text, type_ |-> last.node.type]
    /\ \A i \in 1..Len(lit) : lit[i]._value.tag # "datetime"

C7_Witness ==
    /\ last.op = "value.getter"
    /\ lit[last.self] = [_value |-> Str(S_date), type_ |-> Str(S_xs_date)]
    /\ last.val = DateTime(2020, 1, 15, 0, 0, 0)

\* C8: for every Literal holding a string, whatever its type_, _serialize
\* returns a fes:Literal node whose text is the stored string and whose type
\* attribute is type_ when type_ is present.
C8_SerializeRawText ==
    (/\ last.op = "serialize" /\ last.cls = "Literal" /\ ~last.as_string
     /\ IsStr(lit[last.self]._value))
        => /\ last.exc = NoExc
           /\ last.out = Node(FES_URI, "Literal", lit[last.self]._value,
                              lit[last.self].type_)

\* C9: serializing a Function whose arguments include a Function and parsing
\* the node returns a Function.
C9_FunctionRoundTrip ==
    (/\ last.op = "serialize" /\ last.cls = "Function" /\ ~last.as_string
     /\ LET a == Function_arguments_getter(fn[last.self], Function_arguments)
        IN  \E k \in 1..Len(a) : a[k].cls = "Function")
        => /\ last.exc = NoExc
           /\ LET r == ExpressionParser_parse(last.out)
              IN  r.exc = NoExc /\ r.made /\ r.cls = "Function"

\* A step that assigns a name, seen from both of its states.
C10_NameStep ==
    /\ (/\ last'.cls = "Function" /\ last'.op \in {"name.setter", "__init__"}
        /\ gml_validator(last'.arg) # NoExc)
          => /\ last'.exc = "ValidationError"
             /\ last'.ret = NoRef
             /\ fn' = fn
             /\ Function_arguments' = Function_arguments
    /\ (/\ last'.cls = "Function" /\ last'.op = "name.setter"
        /\ gml_validator(last'.arg) = NoExc)
          => (last'.exc = NoExc /\ fn'[last'.self]._name = last'.arg)

\* C10: an assignment of an invalid name to Function.name, the constructor's
\* included, raises ValidationError, leaves every stored name as it was and
\* appends nothing to any argument sequence; a valid name is stored.
C10_NameValidatedFirst == [][C10_NameStep]_vars

C10_Witness ==
    /\ last.op = "__init__" /\ last.cls = "Function"
    /\ last.arg = Str(S_1x)
    /\ Len(last.args) > 0 /\ IsExpression(last.args[1])
    /\ last.exc = "ValidationError"

====
